---- MODULE Spec2Model ----
(***************************************************************************)
(* The transcript history component (src/components/pages/MainPage.tsx):   *)
(* the history log kept in React state, its load from and save to          *)
(* localStorage, the stt:transcript subscription and the copy feedback     *)
(* timer; and the dictation sound cue of the layout                        *)
(* (src/components/layout/AppLayout.tsx).                                  *)
(*                                                                         *)
(* Strings that the code inspects character by character (transcript      *)
(* texts) are sequences of one-character strings; ids are TLA+ strings.    *)
(* The value held by localStorage is a string in the program; the model    *)
(* keeps what that string is to JSON.parse: absent, empty, not JSON, JSON  *)
(* that is no array, or a JSON array of values.                            *)
(***************************************************************************)
EXTENDS Integers, Sequences, FiniteSets, TLC

(***************************************************************************)
(* Bounds.  MAX_HISTORY_ITEMS is 200 in the source (MainPage.tsx:18); the  *)
(* model scales the capacity down and every formula is stated in terms of  *)
(* the name, never of the number.                                          *)
(***************************************************************************)
MAX_HISTORY_ITEMS == 2

\* transcript handler invocations explored: enough to overflow a full log
MaxEvents == MAX_HISTORY_ITEMS + 1

\* length of the stored arrays explored: beyond the capacity
MaxStored == MAX_HISTORY_ITEMS + 1

\* and for loadHistory alone: room for a malformed record as well
MaxStoredLoad == MAX_HISTORY_ITEMS + 2

\* copy clicks explored
MaxCopies == 2

\* dictation-start events emitted, and dictation-stop events
MaxStarts == 2
MaxStops == MaxStarts - 1

(***************************************************************************)
(* Values                                                                  *)
(***************************************************************************)
Whitespace == {" "}

\* Date.now() results; two entries may get the same one
ClockValues == {1, 2}

\* the number JSON.parse makes of an overflowing literal such as 1e999: it
\* is a number to typeof, no time Intl.DateTimeFormat can format, and
\* JSON.stringify writes it back as null
Infinity == Cardinality(ClockValues) + 1

Min(a, b) == IF a < b THEN a ELSE b

\* Array.prototype.slice(0, n)
slice(s, n) == SubSeq(s, 1, Min(Len(s), n))

\* String.prototype.trim: whitespace is removed at both ends, kept inside
RECURSIVE trimStart(_)
trimStart(s) ==
    IF s # <<>> /\ Head(s) \in Whitespace THEN trimStart(Tail(s)) ELSE s

RECURSIVE trimEnd(_)
trimEnd(s) ==
    IF s # <<>> /\ s[Len(s)] \in Whitespace
    THEN trimEnd(SubSeq(s, 1, Len(s) - 1))
    ELSE s

trim(s) == trimEnd(trimStart(s))

(***************************************************************************)
(* JSON values.  A field of a stored record is absent or holds a string, a *)
(* number or null; an element of the stored array is an object with the    *)
(* three fields or something that is no object.                            *)
(***************************************************************************)
JAbsent == [t |-> "absent", v |-> 0]
JNull == [t |-> "null", v |-> 0]
JStr(s) == [t |-> "str", v |-> s]
JNum(n) == [t |-> "num", v |-> n]
JObject(id, text, ts) == [obj |-> TRUE, id |-> id, text |-> text, ts |-> ts]
JOther == [obj |-> FALSE, id |-> JAbsent, text |-> JAbsent, ts |-> JAbsent]

\* the value of localStorage.getItem(HISTORY_STORAGE_KEY)
StoreAbsent == [kind |-> "absent", items |-> <<>>]
StoreEmpty == [kind |-> "empty", items |-> <<>>]
StoreInvalid == [kind |-> "invalid", items |-> <<>>]
StoreScalar == [kind |-> "scalar", items |-> <<>>]
StoreArray(items) == [kind |-> "array", items |-> items]

\* type HistoryItem
HistoryItem(id, text, ts) == [id |-> id, text |-> text, ts |-> ts]

\* JSON.stringify were the time written under a key loadHistory does not read
stringifyItem_OtherKey(item) == JObject(JStr(item.id), JStr(item.text), JAbsent)

\* JSON.stringify of one history item and of the array
stringifyItem(item) ==
    JObject(JStr(item.id), JStr(item.text),
            IF item.ts = Infinity THEN JNull ELSE JNum(item.ts))

stringify(items) == StoreArray([i \in 1..Len(items) |-> stringifyItem(items[i])])

\* the type guard of loadHistory's filter
isHistoryItem(item) ==
    /\ item.obj
    /\ item.id.t # "absent"
    /\ item.text.t # "absent"
    /\ item.ts.t # "absent"
    /\ item.id.t = "str"
    /\ item.text.t = "str"
    /\ item.ts.t = "num"

\* parsed.filter(...) with the type guard
filter(s) ==
    LET f[i \in 0..Len(s)] ==
            IF i = 0 THEN <<>>
            ELSE IF isHistoryItem(s[i]) THEN Append(f[i - 1], s[i])
            ELSE f[i - 1]
    IN  f[Len(s)]

\* the object JSON.parse built for a record that passed the guard
parsedItem(item) == HistoryItem(item.id.v, item.text.v, item.ts.v)

parsedItems(items) == [i \in 1..Len(items) |-> parsedItem(items[i])]

\* the outcome of a block of code: a value, or an exception
Return(v) == [threw |-> FALSE, value |-> v]
Throw == [threw |-> TRUE, value |-> <<>>]

\* loadHistory's try block were the slice taken before the filter
loadHistoryTry_SliceFirst(raw, getThrows) ==
    IF getThrows THEN Throw
    ELSE IF raw.kind \in {"absent", "empty"} THEN Return(<<>>)
    ELSE IF raw.kind = "invalid" THEN Throw
    ELSE IF raw.kind # "array" THEN Return(<<>>)
    ELSE Return(parsedItems(filter(slice(raw.items, MAX_HISTORY_ITEMS))))

\* the try block of loadHistory; getThrows: localStorage is not readable
loadHistoryTry(raw, getThrows) ==
    IF getThrows THEN Throw
    ELSE IF raw.kind \in {"absent", "empty"} THEN Return(<<>>)
    ELSE IF raw.kind = "invalid" THEN Throw
    ELSE IF raw.kind # "array" THEN Return(<<>>)
    ELSE Return(slice(parsedItems(filter(raw.items)),
                      MAX_HISTORY_ITEMS))

\* loadHistory without its catch
loadHistory_NoCatch(raw, getThrows) == loadHistoryTry(raw, getThrows)

\* loadHistory: the try block with its catch
loadHistory(raw, getThrows) ==
    LET r == loadHistoryTry(raw, getThrows)
    IN  IF r.threw THEN Return(<<>>) ELSE r

(***************************************************************************)
(* Inputs                                                                  *)
(***************************************************************************)
\* elements of a stored array: well-formed records (one with a text that is
\* all whitespace, one with a ts no clock gave) and malformed ones
StoredGood == JObject(JStr("a"), JStr(<<"a">>), JNum(1))
StoredBlank == JObject(JStr("b"), JStr(<<" ">>), JNum(2))
StoredHuge == JObject(JStr("c"), JStr(<<"b">>), JNum(Infinity))
StoredNoTs == JObject(JStr("a"), JStr(<<"a">>), JAbsent)
StoredNumId == JObject(JNum(1), JStr(<<"a">>), JNum(1))
StoredNullText == JObject(JStr("b"), JNull, JNum(2))
StoredStrTs == JObject(JStr("b"), JStr(<<"b">>), JStr("1"))

AllItems ==
    {StoredGood, StoredBlank, StoredHuge, StoredNoTs, StoredNumId,
     StoredNullText, StoredStrTs, JOther}

FewItems == {StoredGood, StoredBlank}

SeqsUpTo(S, n) == UNION {[1..k -> S] : k \in 0..n}

Stores(items, n) ==
    {StoreAbsent, StoreEmpty, StoreInvalid, StoreScalar}
        \cup {StoreArray(a) : a \in SeqsUpTo(items, n)}

\* the payload of an stt:transcript event: none, one without a text field,
\* or one with a text
NoPayload == [kind |-> "none", text |-> <<>>]
NoText == [kind |-> "notext", text |-> <<>>]
TextPayload(s) == [kind |-> "text", text |-> s]

RawTexts == {<<>>, <<" ", " ">>, <<"a">>, <<" ", "a", " ">>, <<"b", " ">>}

Payloads == {NoPayload, NoText} \cup {TextPayload(s) : s \in RawTexts}

\* createId(): the n-th id created is unlike every other id
createId(n) == "u" \o ToString(n)

\* useState<string | null>(null), useRef<number | null>(null)
NullId == "null"
NoTimer == 0

(***************************************************************************)
(* State                                                                   *)
(***************************************************************************)
VARIABLES
    stored,            \* localStorage[HISTORY_STORAGE_KEY]
    getThrows,         \* whether localStorage could not be read at startup
    phase,             \* "constructed", "mounted", "unmounted", "crashed"
    uncaught,          \* the code that let an exception out, or "none"
    history,           \* the history state, as committed
    updates,           \* texts of the setHistory updaters not yet rendered
    effectPending,     \* the persistence effect is due
    nextId,            \* ids created so far, plus one
    subs,              \* the listen() calls made, in order
    nEvents,           \* transcript handler invocations so far
    ignored,           \* a setHistory call was made on the unmounted component
    copiedId,          \* the copiedId state
    clearCopiedTimer,  \* clearCopiedTimer.current
    timers,            \* handles of the timeouts that are set
    nextTimer,         \* timeouts set so far, plus one
    copies,            \* onCopyHistoryItem calls awaiting the clipboard
    nCopies,           \* onCopyHistoryItem calls so far
    lastClicked        \* the item of the latest onCopyHistoryItem call

\* the sound cue of AppLayout
VARIABLES
    cues,              \* the runs of the sound effect: [st, cancelled]
    active,            \* dictationState.active
    lastPlayedMs,      \* dictationState.lastPlayedMs
    now,               \* Date.now()
    inbox,             \* handler calls the backend has sent to the webview
    awaiting,          \* start handlers awaiting sound_get_enabled
    played,            \* start handlers that called audio.play()
    whileActive,       \* dictation-start events received with active set
    lastStart,         \* the latest dictation-start event a handler has seen
    nStarts,           \* dictation-start events emitted so far
    nStops             \* dictation-stop events emitted so far

histVars == <<history, updates, effectPending, nextId, ignored>>
copyVars ==
    <<copiedId, clearCopiedTimer, timers, nextTimer, copies, nCopies, lastClicked>>
soundVars ==
    <<cues, active, lastPlayedMs, now, inbox, awaiting, played, whileActive,
      lastStart, nStarts, nStops>>
pageVars ==
    <<stored, getThrows, phase, uncaught, subs, nEvents, histVars, copyVars>>
vars ==
    <<stored, getThrows, phase, uncaught, history, updates, effectPending,
      nextId, subs, nEvents, ignored, copiedId, clearCopiedTimer, timers,
      nextTimer, copies, nCopies, lastClicked, soundVars>>

\* playDing lets 200 ms pass between two playbacks
DingDebounceMs == 200

\* the clock advances by half of that, and runs long enough for every
\* event to be played
TickMs == DingDebounceMs \div 2
MaxNow == DingDebounceMs * MaxStarts

\* getDictationSoundState on a window that has no state yet, before the
\* layout's effects have run
InitSound ==
    /\ cues = <<>>
    /\ active = FALSE
    /\ lastPlayedMs = 0
    /\ now = DingDebounceMs
    /\ inbox = <<>>
    /\ awaiting = {}
    /\ played = {}
    /\ whileActive = {}
    /\ lastStart = 0
    /\ nStarts = 0
    /\ nStops = 0

\* the state after useState(() => loadHistory()) and the other hooks' first
\* evaluation; no effect has run.  The store holds one of `stores`; for
\* those in `unreadable` the start with a store that cannot be read is
\* explored as well.
InitOver(stores, unreadable) ==
    /\ stored \in stores
    /\ getThrows \in {FALSE} \cup {stored \in unreadable}
    /\ LET r == loadHistory(stored, getThrows)
       IN  /\ history = r.value
           /\ phase = IF r.threw THEN "crashed" ELSE "constructed"
           /\ uncaught = IF r.threw THEN "loadHistory" ELSE "none"
    /\ updates = <<>>
    /\ effectPending = FALSE
    /\ nextId = 1
    /\ subs = <<>>
    /\ nEvents = 0
    /\ ignored = FALSE
    /\ copiedId = NullId
    /\ clearCopiedTimer = NoTimer
    /\ timers = {}
    /\ nextTimer = 1
    /\ copies = {}
    /\ nCopies = 0
    /\ lastClicked = NullId
    /\ InitSound

Init ==
    InitOver(Stores(FewItems, MaxStored)
                 \cup {StoreArray(<<StoredHuge>>),
                       StoreArray(<<StoredNoTs, StoredGood, StoredHuge>>)},
             {StoreArray(<<StoredGood>>)})

InitLoad ==
    InitOver(Stores(AllItems, MaxStoredLoad), Stores(AllItems, MaxStoredLoad))

InitCopy == InitOver({StoreAbsent, StoreArray(<<StoredGood, StoredBlank>>)}, {})

\* the page on an empty store, under the layout
InitLayout == InitOver({StoreAbsent}, {})

(***************************************************************************)
(* Operations                                                              *)
(***************************************************************************)
\* the handler without the trim
handlerText_NoTrim(payload) ==
    IF payload.kind = "text" THEN payload.text ELSE <<>>

\* event.payload?.text?.trim(); undefined and "" are both falsy, both <<>>
handlerText(payload) ==
    IF payload.kind = "text" THEN trim(payload.text) ELSE <<>>

\* the updater without the slice
prepend_NoSlice(prev, entry) == <<entry>> \o prev

\* the updater were the entry added at the end
prepend_AtTail(prev, entry) == slice(prev \o <<entry>>, MAX_HISTORY_ITEMS)

\* the updater were the slice slice(-MAX): the last entries are kept
prepend_KeepLast(prev, entry) ==
    LET all == <<entry>> \o prev
    IN  SubSeq(all, Len(all) - Min(Len(all), MAX_HISTORY_ITEMS) + 1, Len(all))

\* the updater were it to stamp the entries it keeps with the new time
prepend_Restamp(prev, entry) ==
    slice(<<entry>> \o [i \in 1..Len(prev) |-> [prev[i] EXCEPT !.ts = entry.ts]],
          MAX_HISTORY_ITEMS)

\* the setHistory updater: (prev) => [entry, ...prev].slice(0, MAX)
prepend(prev, entry) == slice(<<entry>> \o prev, MAX_HISTORY_ITEMS)

\* the updaters queued for `texts`, run in order on `prev`; the k-th makes
\* its entry with the id createId() returns and the time Date.now() returns
RECURSIVE applyUpdates(_, _, _, _)
applyUpdates(prev, texts, firstId, times) ==
    IF texts = <<>> THEN prev
    ELSE applyUpdates(
             prepend(prev, HistoryItem(createId(firstId), Head(texts), Head(times))),
             Tail(texts), firstId + 1, Tail(times))

\* the value the persistence effect hands to localStorage.setItem
persisted(log) == stringify(slice(log, MAX_HISTORY_ITEMS))

\* timeFormatter.format(item.ts) of the render: a RangeError for a number
\* that is no time
renderThrows(log) == \E i \in 1..Len(log) : log[i].ts = Infinity

\* a listen() call: its promise is "requested" until the backend has
\* registered the handler ("registered"), "resolved" once the then callback
\* has kept the unlisten function, "removed" once unlisten has been called,
\* "rejected" when the event source is not available
NewSub == [st |-> "requested", cancelled |-> FALSE]

\* the cleanup of the subscription effect, for the listen() call of the
\* effect run it belongs to (the last one)
cleanupSub(ss) ==
    IF ss = <<>> THEN ss
    ELSE [ss EXCEPT ![Len(ss)] =
             [st |-> IF @.st = "resolved" THEN "removed" ELSE @.st,
              cancelled |-> TRUE]]

\* the cleanup of the timer effect
cleanupTimers(ts, current) == IF current # NoTimer THEN ts \ {current} ELSE ts

\* the first render throws: nothing is committed and no effect runs
RenderFails ==
    /\ phase = "constructed"
    /\ renderThrows(history)
    /\ phase' = "crashed"
    /\ uncaught' = "render"
    /\ UNCHANGED <<stored, getThrows, subs, nEvents>>
    /\ UNCHANGED histVars
    /\ UNCHANGED copyVars
    /\ UNCHANGED soundVars

\* the effects of the first commit, in the order of the hooks: the
\* persistence effect writes the loaded log, the subscription effect calls
\* listen().  Under React.StrictMode a development build runs the effects,
\* their cleanups and the effects again.  setItem may throw; the effect does
\* not catch it, the remaining effects still run and then the tree is
\* unmounted, which runs the cleanups.
Mount ==
    /\ phase = "constructed"
    /\ ~renderThrows(history)
    /\ \E strict \in BOOLEAN, ok1 \in BOOLEAN, ok2 \in BOOLEAN :
          LET failed == ~ok1 \/ (strict /\ ~ok2)
              listened == IF strict
                          THEN <<[NewSub EXCEPT !.cancelled = TRUE], NewSub>>
                          ELSE <<NewSub>>
          IN  /\ (~strict => ok2)
              /\ stored' = IF ok1 \/ (strict /\ ok2) THEN persisted(history)
                           ELSE stored
              /\ subs' = IF failed THEN cleanupSub(listened) ELSE listened
              /\ phase' = IF failed THEN "crashed" ELSE "mounted"
              /\ uncaught' = IF failed THEN "persist" ELSE "none"
    /\ UNCHANGED <<getThrows, nEvents>>
    /\ UNCHANGED histVars
    /\ UNCHANGED copyVars
    /\ UNCHANGED soundVars

\* the backend registers the handler of a listen() call
ListenRegistered ==
    \E i \in 1..Len(subs) :
        /\ subs[i].st = "requested"
        /\ subs' = [subs EXCEPT ![i].st = "registered"]
        /\ UNCHANGED <<stored, getThrows, phase, uncaught, nEvents>>
        /\ UNCHANGED histVars
        /\ UNCHANGED copyVars
        /\ UNCHANGED soundVars

\* the then callback of a listen() call: a cancelled effect calls the
\* unlisten function at once, the others keep it
ListenResolved ==
    \E i \in 1..Len(subs) :
        /\ subs[i].st = "registered"
        /\ subs' = [subs EXCEPT ![i].st =
                        IF subs[i].cancelled THEN "removed" ELSE "resolved"]
        /\ UNCHANGED <<stored, getThrows, phase, uncaught, nEvents>>
        /\ UNCHANGED histVars
        /\ UNCHANGED copyVars
        /\ UNCHANGED soundVars

\* the catch callback of a listen() call: the failure is logged
ListenRejected ==
    \E i \in 1..Len(subs) :
        /\ subs[i].st = "requested"
        /\ subs' = [subs EXCEPT ![i].st = "rejected"]
        /\ UNCHANGED <<stored, getThrows, phase, uncaught, nEvents>>
        /\ UNCHANGED histVars
        /\ UNCHANGED copyVars
        /\ UNCHANGED soundVars

\* the handler were its update to reach a log that outlives the component
TranscriptOf_Outlives(i, payload) ==
    /\ subs[i].st \in {"registered", "resolved"}
    /\ nEvents' = nEvents + 1
    /\ LET text == handlerText(payload)
       IN  updates' = IF text # <<>> THEN Append(updates, text) ELSE updates
    /\ UNCHANGED <<stored, getThrows, phase, uncaught, subs>>
    /\ UNCHANGED <<history, effectPending, nextId, ignored>>
    /\ UNCHANGED copyVars
    /\ UNCHANGED soundVars

\* the stt:transcript handler of a registered listen() call; setHistory on
\* a component that is no longer mounted does nothing
TranscriptOf(i, payload) ==
    /\ subs[i].st \in {"registered", "resolved"}
    /\ nEvents' = nEvents + 1
    /\ LET text == handlerText(payload)
       IN  /\ updates' = IF text # <<>> /\ phase = "mounted"
                         THEN Append(updates, text)
                         ELSE updates
           /\ ignored' = (ignored \/ (text # <<>> /\ phase # "mounted"))
    /\ UNCHANGED <<stored, getThrows, phase, uncaught, subs>>
    /\ UNCHANGED <<history, effectPending, nextId>>
    /\ UNCHANGED copyVars
    /\ UNCHANGED soundVars

Transcript ==
    \E i \in 1..Len(subs), payload \in Payloads :
        nEvents < MaxEvents /\ TranscriptOf(i, payload)

\* the same, explored for one event only
TranscriptOnce ==
    \E i \in 1..Len(subs), payload \in Payloads :
        nEvents < 1 /\ TranscriptOf(i, payload)

\* the render were the persistence effect run on mount only
Render_NoEffect ==
    /\ phase = "mounted"
    /\ updates # <<>>
    /\ ~effectPending
    /\ \E times \in [1..Len(updates) -> ClockValues] :
          history' = applyUpdates(history, updates, nextId, times)
    /\ nextId' = nextId + Len(updates)
    /\ updates' = <<>>
    /\ effectPending' = FALSE
    /\ UNCHANGED <<stored, getThrows, phase, uncaught, subs, nEvents, ignored>>
    /\ UNCHANGED copyVars
    /\ UNCHANGED soundVars

\* a render: the queued updaters run in order, the result is committed and
\* the persistence effect, whose dependency changed, becomes due.  React
\* runs the effects that are due before it renders again.
Render ==
    /\ phase = "mounted"
    /\ updates # <<>>
    /\ ~effectPending
    /\ \E times \in [1..Len(updates) -> ClockValues] :
          history' = applyUpdates(history, updates, nextId, times)
    /\ nextId' = nextId + Len(updates)
    /\ updates' = <<>>
    /\ effectPending' = TRUE
    /\ UNCHANGED <<stored, getThrows, phase, uncaught, subs, nEvents, ignored>>
    /\ UNCHANGED copyVars
    /\ UNCHANGED soundVars

\* the persistence effect: localStorage.setItem, which may throw; the
\* effect does not catch it and the tree is unmounted
PersistEffect ==
    /\ phase = "mounted"
    /\ effectPending
    /\ effectPending' = FALSE
    /\ \E ok \in BOOLEAN :
          IF ok
          THEN /\ stored' = persisted(history)
               /\ UNCHANGED <<phase, uncaught, subs, updates, timers>>
          ELSE /\ phase' = "crashed"
               /\ uncaught' = "persist"
               /\ subs' = cleanupSub(subs)
               /\ timers' = cleanupTimers(timers, clearCopiedTimer)
               /\ updates' = <<>>
               /\ UNCHANGED stored
    /\ UNCHANGED <<getThrows, nEvents, history, nextId, ignored>>
    /\ UNCHANGED <<copiedId, clearCopiedTimer, nextTimer>>
    /\ UNCHANGED <<copies, nCopies, lastClicked>>
    /\ UNCHANGED soundVars

\* the component is unmounted (the route changes): the cleanups of the
\* timer effect and of the subscription effect run, and updaters that were
\* not rendered are dropped
Teardown ==
    /\ phase = "mounted"
    /\ ~effectPending
    /\ phase' = "unmounted"
    /\ subs' = cleanupSub(subs)
    /\ timers' = cleanupTimers(timers, clearCopiedTimer)
    /\ updates' = <<>>
    /\ UNCHANGED <<stored, getThrows, uncaught, nEvents>>
    /\ UNCHANGED <<history, effectPending, nextId, ignored>>
    /\ UNCHANGED <<copiedId, clearCopiedTimer, nextTimer>>
    /\ UNCHANGED <<copies, nCopies, lastClicked>>
    /\ UNCHANGED soundVars

\* copyToClipboard were it to report a copy whatever execCommand said
copyToClipboard_IgnoresResult(primaryOk, fallback) ==
    IF primaryOk THEN TRUE
    ELSE fallback # "throws"

\* copyToClipboard: navigator.clipboard.writeText, then the textarea and
\* execCommand('copy'), which says whether it copied or throws
copyToClipboard(primaryOk, fallback) ==
    IF primaryOk THEN TRUE
    ELSE IF fallback = "throws" THEN FALSE
    ELSE fallback = "ok"

\* onCopyHistoryItem were the earlier timeout left to run
rescheduled_NoClear(ts, current, new) == ts \cup {new}

\* the timeouts after onCopyHistoryItem has cleared the one it holds, if
\* any, and set a new one
rescheduled(ts, current, new) ==
    (IF current # NoTimer THEN ts \ {current} ELSE ts) \cup {new}

\* a click on a rendered entry: onCopyHistoryItem up to its await
Click ==
    /\ phase = "mounted"
    /\ nCopies < MaxCopies
    /\ \E i \in 1..Len(history) :
          /\ copies' = copies \cup {[n |-> nCopies + 1, id |-> history[i].id]}
          /\ lastClicked' = history[i].id
    /\ nCopies' = nCopies + 1
    /\ UNCHANGED <<stored, getThrows, phase, uncaught, subs, nEvents>>
    /\ UNCHANGED histVars
    /\ UNCHANGED <<copiedId, clearCopiedTimer, timers, nextTimer>>
    /\ UNCHANGED soundVars

\* onCopyHistoryItem after its await, for the call c and an outcome of the
\* two clipboard mechanisms; setCopiedId on a component that is no longer
\* mounted does nothing
CopySettledOf(c, primaryOk, fallback) ==
    /\ c \in copies
    /\ copies' = copies \ {c}
    /\ IF copyToClipboard(primaryOk, fallback)
       THEN /\ copiedId' = IF phase = "mounted" THEN c.id ELSE copiedId
            /\ timers' = rescheduled(timers, clearCopiedTimer, nextTimer)
            /\ clearCopiedTimer' = nextTimer
            /\ nextTimer' = nextTimer + 1
       ELSE UNCHANGED <<copiedId, timers, clearCopiedTimer, nextTimer>>
    /\ UNCHANGED <<stored, getThrows, phase, uncaught, subs, nEvents, nCopies>>
    /\ UNCHANGED lastClicked
    /\ UNCHANGED soundVars
    /\ UNCHANGED histVars

\* the clipboard calls settle in any order
CopySettled ==
    \E c \in copies, primaryOk \in BOOLEAN, fallback \in {"ok", "no", "throws"} :
        CopySettledOf(c, primaryOk, fallback)

\* a timeout expires: () => setCopiedId(null)
TimerFires ==
    \E t \in timers :
        /\ timers' = timers \ {t}
        /\ copiedId' = IF phase = "mounted" THEN NullId ELSE copiedId
        /\ UNCHANGED <<stored, getThrows, phase, uncaught, subs, nEvents>>
        /\ UNCHANGED histVars
        /\ UNCHANGED <<clearCopiedTimer, nextTimer, copies, nCopies, lastClicked>>
        /\ UNCHANGED soundVars

(***************************************************************************)
(* The sound cue of AppLayout                                              *)
(***************************************************************************)
NewCue == [st |-> "setup", cancelled |-> FALSE]

\* the runs of the effect whose stt:dictation-start handler the backend
\* holds, and those whose stt:dictation-stop handler it holds
startCues == {i \in 1..Len(cues) : cues[i].st \in {"start", "both", "kept"}}
stopCues == {i \in 1..Len(cues) : cues[i].st \in {"both", "kept"}}

\* one call per handler an event has, by the order of registration
RECURSIVE calls(_, _, _, _)
calls(kind, ev, to, from) ==
    IF from > Len(cues) THEN <<>>
    ELSE (IF from \in to
          THEN <<[kind |-> kind, ev |-> ev, cue |-> from]>>
          ELSE <<>>) \o calls(kind, ev, to, from + 1)

\* playDing's test of the time since the last playback
debounced(t, last) == t - last < DingDebounceMs

\* the sound effect of the first commit: the async setup starts.  Under
\* React.StrictMode a development build runs the effect, its cleanup, which
\* finds no unlisten function yet, and the effect again.
CueMount ==
    /\ cues = <<>>
    /\ \E strict \in BOOLEAN :
          cues' = IF strict
                  THEN <<[NewCue EXCEPT !.cancelled = TRUE], NewCue>>
                  ELSE <<NewCue>>
    /\ UNCHANGED <<active, lastPlayedMs, now, inbox, awaiting, played>>
    /\ UNCHANGED <<whileActive, lastStart, nStarts, nStops>>
    /\ UNCHANGED pageVars

\* the setup: listen('stt:dictation-start') has registered its handler
CueListenStart ==
    \E i \in 1..Len(cues) :
        /\ cues[i].st = "setup"
        /\ cues' = [cues EXCEPT ![i].st = "start"]
        /\ UNCHANGED <<active, lastPlayedMs, now, inbox, awaiting, played>>
        /\ UNCHANGED <<whileActive, lastStart, nStarts, nStops>>
        /\ UNCHANGED pageVars

\* the setup: listen('stt:dictation-stop') has registered its handler
CueListenStop ==
    \E i \in 1..Len(cues) :
        /\ cues[i].st = "start"
        /\ cues' = [cues EXCEPT ![i].st = "both"]
        /\ UNCHANGED <<active, lastPlayedMs, now, inbox, awaiting, played>>
        /\ UNCHANGED <<whileActive, lastStart, nStarts, nStops>>
        /\ UNCHANGED pageVars

\* the setup after its awaits: a cancelled run unregisters both handlers,
\* the others keep the function that does
CueSetupDone ==
    \E i \in 1..Len(cues) :
        /\ cues[i].st = "both"
        /\ cues' = [cues EXCEPT ![i].st =
                        IF cues[i].cancelled THEN "removed" ELSE "kept"]
        /\ UNCHANGED <<active, lastPlayedMs, now, inbox, awaiting, played>>
        /\ UNCHANGED <<whileActive, lastStart, nStarts, nStops>>
        /\ UNCHANGED pageVars

\* the setup fails (an import or listen() throws): the failure is logged
CueSetupFails ==
    \E i \in 1..Len(cues) :
        /\ cues[i].st = "setup"
        /\ cues' = [cues EXCEPT ![i].st = "failed"]
        /\ UNCHANGED <<active, lastPlayedMs, now, inbox, awaiting, played>>
        /\ UNCHANGED <<whileActive, lastStart, nStarts, nStops>>
        /\ UNCHANGED pageVars

\* the backend emits stt:dictation-start: a call of every handler
\* registered for it is sent to the webview
EmitStart ==
    /\ nStarts < MaxStarts
    /\ nStarts' = nStarts + 1
    /\ inbox' = inbox \o calls("start", nStarts + 1, startCues, 1)
    /\ UNCHANGED <<cues, active, lastPlayedMs, now, awaiting, played>>
    /\ UNCHANGED <<whileActive, lastStart, nStops>>
    /\ UNCHANGED pageVars

\* the backend emits stt:dictation-stop
EmitStop ==
    /\ nStops < MaxStops
    /\ nStops' = nStops + 1
    /\ inbox' = inbox \o calls("stop", 0, stopCues, 1)
    /\ UNCHANGED <<cues, active, lastPlayedMs, now, awaiting, played>>
    /\ UNCHANGED <<whileActive, lastStart, nStarts>>
    /\ UNCHANGED pageVars

\* the start handler were it to go on with active set
HandleStart_NoGuard ==
    /\ inbox # <<>>
    /\ Head(inbox).kind = "start"
    /\ inbox' = Tail(inbox)
    /\ LET call == Head(inbox)
       IN  /\ lastStart' = call.ev
           /\ whileActive' = IF call.ev > lastStart /\ active
                             THEN whileActive \cup {call.ev}
                             ELSE whileActive
           /\ IF cues[call.cue].st = "removed"
              THEN UNCHANGED <<active, awaiting>>
              ELSE /\ active' = TRUE
                   /\ awaiting' = awaiting \cup {[ev |-> call.ev, cue |-> call.cue]}
    /\ UNCHANGED <<cues, lastPlayedMs, now, played, nStarts, nStops>>
    /\ UNCHANGED pageVars

\* the stt:dictation-start handler up to its await: it returns if active is
\* set, and else sets it and asks for sound_get_enabled.  A call that
\* arrives after unlisten finds no handler.  An event is received with
\* active set if the first handler it reaches finds it set.
HandleStart ==
    /\ inbox # <<>>
    /\ Head(inbox).kind = "start"
    /\ inbox' = Tail(inbox)
    /\ LET call == Head(inbox)
       IN  /\ lastStart' = call.ev
           /\ whileActive' = IF call.ev > lastStart /\ active
                             THEN whileActive \cup {call.ev}
                             ELSE whileActive
           /\ IF cues[call.cue].st = "removed" \/ active
              THEN UNCHANGED <<active, awaiting>>
              ELSE /\ active' = TRUE
                   /\ awaiting' = awaiting \cup {[ev |-> call.ev, cue |-> call.cue]}
    /\ UNCHANGED <<cues, lastPlayedMs, now, played, nStarts, nStops>>
    /\ UNCHANGED pageVars

\* the stt:dictation-stop handler
HandleStop ==
    /\ inbox # <<>>
    /\ Head(inbox).kind = "stop"
    /\ inbox' = Tail(inbox)
    /\ active' = IF cues[Head(inbox).cue].st = "removed" THEN active ELSE FALSE
    /\ UNCHANGED <<cues, lastPlayedMs, now, awaiting, played>>
    /\ UNCHANGED <<whileActive, lastStart, nStarts, nStops>>
    /\ UNCHANGED pageVars

\* the start handler after its await: sound_get_enabled answered false or
\* threw, and the handler is over; or it answered true and playDing runs,
\* which returns within the debounce time and else notes the time and
\* calls audio.play()
Reply ==
    \E call \in awaiting, answer \in {"true", "false", "throws"} :
        /\ awaiting' = awaiting \ {call}
        /\ IF answer = "true" /\ ~debounced(now, lastPlayedMs)
           THEN /\ lastPlayedMs' = now
                /\ played' = played \cup {call}
           ELSE UNCHANGED <<lastPlayedMs, played>>
        /\ UNCHANGED <<cues, active, now, inbox>>
        /\ UNCHANGED <<whileActive, lastStart, nStarts, nStops>>
        /\ UNCHANGED pageVars

\* time passes
Tick ==
    /\ now < MaxNow
    /\ now' = now + TickMs
    /\ UNCHANGED <<cues, active, lastPlayedMs, inbox, awaiting, played>>
    /\ UNCHANGED <<whileActive, lastStart, nStarts, nStops>>
    /\ UNCHANGED pageVars

\* the sound cue, with the page left as constructed
NextSound ==
    \/ CueMount
    \/ CueListenStart
    \/ CueListenStop
    \/ CueSetupDone
    \/ CueSetupFails
    \/ EmitStart
    \/ EmitStop
    \/ HandleStart
    \/ HandleStop
    \/ Reply
    \/ Tick

SpecSound == InitLayout /\ [][NextSound]_vars

(***************************************************************************)
(* Specifications                                                          *)
(***************************************************************************)
Next ==
    \/ RenderFails
    \/ Mount
    \/ ListenRegistered
    \/ ListenResolved
    \/ ListenRejected
    \/ Transcript
    \/ Render
    \/ PersistEffect
    \/ Teardown

\* the history log and the component's life: the copy feedback, which
\* neither reads nor writes the log or the store, is left to SpecCopy
Spec == Init /\ [][Next]_vars

\* the whole component, copy feedback included, on two stored values and
\* one transcript event
NextCopy ==
    \/ Mount
    \/ ListenRegistered
    \/ ListenResolved
    \/ ListenRejected
    \/ TranscriptOnce
    \/ Render
    \/ PersistEffect
    \/ Teardown
    \/ Click
    \/ CopySettled
    \/ TimerFires

SpecCopy == InitCopy /\ [][NextCopy]_vars

\* a timeout that is set and not cleared expires
FairSpecCopy == SpecCopy /\ WF_vars(TimerFires)

\* a first click only
ClickOnce == nCopies < 1 /\ Click

\* a first and a second transcript event only
TranscriptTwice == nEvents < 2 /\ Transcript

\* the whole component on two stored values, with two transcript events,
\* which one render may apply together, and one copy
NextLog ==
    \/ Mount
    \/ ListenRegistered
    \/ ListenResolved
    \/ ListenRejected
    \/ TranscriptTwice
    \/ Render
    \/ PersistEffect
    \/ Teardown
    \/ ClickOnce
    \/ CopySettled
    \/ TimerFires

SpecLog == InitCopy /\ [][NextLog]_vars

\* loadHistory on every stored value, and the first commit
NextLoad == RenderFails \/ Mount

SpecLoad == InitLoad /\ [][NextLoad]_vars

(***************************************************************************)
(* Properties                                                              *)
(***************************************************************************)
\* the entries of the log that this session created, by the order of their
\* creation: created(k) is the id of the k-th
numCreated == nextId - 1
created(k) == createId(k)
isCreated(entry) == \E k \in 1..numCreated : entry.id = created(k)

\* a stored record as the specification describes a well-formed one
WellFormed(item) ==
    item.obj /\ item.id.t = "str" /\ item.text.t = "str" /\ item.ts.t = "num"

WellFormedAt(items) == {i \in 1..Len(items) : WellFormed(items[i])}

\* the index of the k-th well-formed record of items
NthWellFormed(items, k) ==
    CHOOSE i \in WellFormedAt(items) :
        Cardinality({j \in WellFormedAt(items) : j <= i}) = k

\* the store holds exactly the log: a JSON array of {id, text, ts}, in the
\* log's order
HoldsLog(store, log) ==
    /\ store.kind = "array"
    /\ Len(store.items) = Len(log)
    /\ \A i \in 1..Len(log) :
          /\ store.items[i].obj
          /\ store.items[i].id = JStr(log[i].id)
          /\ store.items[i].text = JStr(log[i].text)
          /\ store.items[i].ts = JNum(log[i].ts)

\* a text with nothing but whitespace in it, and a payload without text
IsBlank(s) == \A i \in 1..Len(s) : s[i] \in Whitespace
BlankPayloads == {p \in Payloads : p.kind # "text" \/ IsBlank(p.text)}

\* C1: in every reachable state, after the load from any stored value and
\* after any sequence of transcript events, the log has at most
\* MAX_HISTORY_ITEMS entries.
C1_LengthBounded == Len(history) <= MAX_HISTORY_ITEMS

\* the log is full after a load of more well-formed records than it holds
C1_Witness ==
    /\ phase = "constructed"
    /\ stored.kind = "array"
    /\ ~getThrows
    /\ Cardinality(WellFormedAt(stored.items)) > MAX_HISTORY_ITEMS
    /\ Len(history) = MAX_HISTORY_ITEMS

\* C2: the entries created for the transcript events are in the log newest
\* first: of two of them, the one created later is at the smaller index,
\* whatever their timestamps.
C2_NewestFirst ==
    \A i, j \in 1..Len(history) :
        \A m, n \in 1..numCreated :
            (history[i].id = created(m) /\ history[j].id = created(n) /\ m < n)
                => j < i

\* two entries created with the same timestamp are both in the log
C2_Witness ==
    \E i, j \in 1..Len(history) :
        /\ i < j
        /\ isCreated(history[i])
        /\ isCreated(history[j])
        /\ history[i].ts = history[j].ts

\* after more appends than the log holds, the log is the newest of them
C3_Full ==
    numCreated > MAX_HISTORY_ITEMS =>
        /\ Len(history) = MAX_HISTORY_ITEMS
        /\ \A k \in 1..MAX_HISTORY_ITEMS :
              history[k].id = created(numCreated - k + 1)

\* a change of the log keeps a prefix of the old log at the end of the new
C3_DropsTail ==
    history' # history =>
        \E n \in 0..Len(history) :
            /\ n <= Len(history')
            /\ SubSeq(history', Len(history') - n + 1, Len(history'))
                   = SubSeq(history, 1, n)
            /\ n < Len(history) => Len(history') = MAX_HISTORY_ITEMS

\* C3: once more than MAX_HISTORY_ITEMS entries have been appended the log
\* has exactly MAX_HISTORY_ITEMS entries, the most recently appended ones,
\* newest first; and every change of the log keeps a prefix of the old log
\* at its end, so that what is dropped is dropped from the tail.
C3_MostRecentKept == [](C3_Full) /\ [][C3_DropsTail]_vars

\* more entries were appended than the log holds
C3_Witness ==
    /\ numCreated > MAX_HISTORY_ITEMS
    /\ Len(history) = MAX_HISTORY_ITEMS
    /\ history[MAX_HISTORY_ITEMS].id = created(numCreated - MAX_HISTORY_ITEMS + 1)

\* C4: a transcript event whose text is empty, all whitespace or missing
\* changes neither the log nor the updates waiting to be rendered, and so
\* makes no persistence effect due and no write.
C4_BlankIsNoOp ==
    [][(\E i \in 1..Len(subs), p \in BlankPayloads : TranscriptOf(i, p))
          => UNCHANGED <<history, updates, effectPending, stored>>]_vars

\* the handler has run on a mounted component and nothing was appended
C4_Witness ==
    /\ phase = "mounted"
    /\ nEvents > 0
    /\ numCreated = 0
    /\ updates = <<>>

\* C5: loadHistory on a stored JSON array returns the well-formed records
\* (string id, string text, numeric ts), in their stored order, up to the
\* first MAX_HISTORY_ITEMS of them; the malformed ones are left out.
C5_LoadFilters ==
    (phase = "constructed" /\ ~getThrows /\ stored.kind = "array") =>
        LET items == stored.items
            count == Cardinality(WellFormedAt(items))
        IN  /\ Len(history) = Min(count, MAX_HISTORY_ITEMS)
            /\ \A k \in 1..Len(history) :
                  LET rec == items[NthWellFormed(items, k)]
                  IN  /\ history[k].id = rec.id.v
                      /\ history[k].text = rec.text.v
                      /\ history[k].ts = rec.ts.v

\* a stored array with a malformed record before the last well-formed one,
\* and more well-formed records than the log holds
C5_Witness ==
    /\ phase = "constructed"
    /\ ~getThrows
    /\ stored.kind = "array"
    /\ Cardinality(WellFormedAt(stored.items)) > MAX_HISTORY_ITEMS
    /\ \E i \in 1..Len(stored.items) :
          /\ ~WellFormed(stored.items[i])
          /\ i < NthWellFormed(stored.items, MAX_HISTORY_ITEMS)

\* C6: loadHistory lets no exception out, and returns the empty log when the
\* key is absent or empty, when the store cannot be read, when the stored
\* string is no JSON and when it is JSON but no array.
C6_LoadNeverRaises ==
    /\ uncaught # "loadHistory"
    /\ (phase = "constructed"
          /\ (getThrows \/ stored.kind \in {"absent", "empty", "invalid", "scalar"}))
         => history = <<>>

\* the store could not be read, or held no JSON, and the component is there
C6_Witness ==
    /\ phase = "constructed"
    /\ getThrows \/ stored.kind = "invalid"
    /\ history = <<>>

\* with no write due, loadHistory on the store returns the log
C7_Reloads ==
    (phase = "mounted" /\ ~effectPending) =>
        loadHistory(stored, FALSE) = Return(history)

\* the handler queues the trimmed text of the event
C7_Queued ==
    \A i \in 1..Len(subs), p \in Payloads \ BlankPayloads :
        (phase = "mounted" /\ TranscriptOf(i, p))
            => updates' = Append(updates, trim(p.text))

\* the render puts the text queued last at the head of the log
C7_Rendered ==
    history' # history =>
        /\ updates # <<>>
        /\ history'[1].text = updates[Len(updates)]

\* what a write stores is read back as the log of that moment
C7_Written ==
    (phase' = "mounted" /\ effectPending /\ ~effectPending') =>
        /\ history' = history
        /\ loadHistory(stored', FALSE) = Return(history)

\* C7: once the log with an appended entry has been written, loadHistory
\* on the store returns the log as it was at the write, and its head has
\* the trimmed text of the event: the handler queues trim(t), the render
\* puts the text queued last at the head, and the write is read back whole.
C7_RoundTrip ==
    [](C7_Reloads) /\ [][C7_Queued /\ C7_Rendered /\ C7_Written]_vars

\* an appended entry is at the head of the log and the log has been written
C7_Witness ==
    /\ phase = "mounted"
    /\ ~effectPending
    /\ numCreated > 0
    /\ history[1].id = created(numCreated)
    /\ loadHistory(stored, FALSE).value[1].text = history[1].text

\* on a mounted component with no write due the stored array is the log
C8_Synced ==
    (phase = "mounted" /\ ~effectPending) =>
        /\ HoldsLog(stored, history)
        /\ Len(stored.items) <= MAX_HISTORY_ITEMS

\* a step that changes the log writes nothing and leaves the write due
C8_UpdateFirst == history' # history => (effectPending' /\ stored' = stored)

\* a write stores the log as it is in memory
C8_WritesCurrent ==
    stored' # stored => (history' = history /\ HoldsLog(stored', history))

\* the due write is discharged by a setItem call, which stores the log or
\* throws
C8_Discharged ==
    (effectPending /\ ~effectPending') =>
        (HoldsLog(stored', history) \/ uncaught' = "persist")

\* C8: the log is updated first and written second.  A step that changes
\* the log writes nothing and leaves the write due; every write stores the
\* log as it is in memory at that time, so the store is never ahead of it;
\* the due write is discharged by a setItem call and by nothing else; and on
\* a mounted component with no write due the stored array is the log, at
\* most MAX_HISTORY_ITEMS long.
C8_UpdateThenWrite ==
    [](C8_Synced) /\ [][C8_UpdateFirst /\ C8_WritesCurrent /\ C8_Discharged]_vars

\* an appended entry is in the log and the store does not hold it yet
C8_Witness ==
    /\ phase = "mounted"
    /\ effectPending
    /\ numCreated > 0
    /\ ~HoldsLog(stored, history)

\* C9 as claimed: when the write of a log with an appended entry fails, the
\* exception does not leave the component, which keeps its log and goes on
\* accepting transcripts.
C9_WriteFailureContained ==
    numCreated > 0 => (uncaught # "persist" /\ phase # "crashed")

\* C10 as claimed: the feedback state, once Copied(id), returns to Idle
\* (a run in which an exception left the component aside).
C10_ReturnsToIdle ==
    (copiedId # NullId) ~> (copiedId = NullId \/ uncaught # "none")

\* a copy that succeeds on the mounted component leaves Copied(id), with
\* its timeout set
C10_Copied ==
    \A c \in copies :
        (phase = "mounted" /\ copies' = copies \ {c} /\ nextTimer' # nextTimer)
            => /\ copiedId' = c.id
               /\ clearCopiedTimer' \in timers'

\* Copied becomes Idle by the expiry of the timeout last set, only
C10_OnlyByExpiry ==
    (copiedId # NullId /\ copiedId' = NullId) =>
        /\ clearCopiedTimer \in timers
        /\ timers' = timers \ {clearCopiedTimer}

\* C10, amended: a copy that succeeds on the mounted component leaves the
\* state Copied(id) with its timeout set; the state goes from Copied to Idle
\* by the expiry of that timeout and by no other step; and Copied leads to
\* Idle for as long as the component stays mounted.
C10_Feedback ==
    /\ [][C10_Copied /\ C10_OnlyByExpiry]_vars
    /\ (phase = "mounted" /\ copiedId # NullId)
           ~> (copiedId = NullId \/ phase # "mounted")

\* a copy succeeded after an earlier one: the state is Copied and the one
\* timeout that is set is the later one
C10_Witness ==
    /\ phase = "mounted"
    /\ copiedId # NullId
    /\ nextTimer > 2
    /\ timers = {clearCopiedTimer}

\* the copies that have failed so far: every call that is over and set no
\* timeout
failedCopies == nCopies - Cardinality(copies) - (nextTimer - 1)

\* C11 as claimed: once two or more copy calls have all succeeded and the
\* feedback has not yet expired, the state is Copied(id) for the item of
\* the latest call, whatever order the clipboard writes completed in, and
\* one timeout is outstanding.
C11_LatestCallWins ==
    (/\ phase = "mounted"
     /\ nCopies >= 2
     /\ copies = {}
     /\ failedCopies = 0
     /\ timers # {})
        => /\ copiedId = lastClicked
           /\ Cardinality(timers) = 1

\* C12: a copy whose primary write and whose fallback both fail returns
\* false, raises nothing, and leaves the feedback state, the timeout held
\* and the timeouts outstanding as they were.
C12_FailureChangesNothing ==
    [][\A c \in copies, fallback \in {"no", "throws"} :
          CopySettledOf(c, FALSE, fallback) =>
              (/\ ~copyToClipboard(FALSE, fallback)
               /\ UNCHANGED <<copiedId, clearCopiedTimer, timers, nextTimer>>
               /\ UNCHANGED <<phase, uncaught>>)]_vars

\* a copy has failed and the state is Copied with its timeout outstanding
C12_Witness ==
    /\ phase = "mounted"
    /\ failedCopies > 0
    /\ copiedId # NullId
    /\ timers = {clearCopiedTimer}

C14_NoTimerAfterTeardown ==
    phase = "unmounted" => timers = {}

\* C15: at most one timeout is outstanding, and it is the one the
\* component holds.
C15_AtMostOneTimer ==
    /\ Cardinality(timers) <= 1
    /\ timers \subseteq {clearCopiedTimer}

\* every copy allowed has succeeded and the timeout of the last one is the
\* one outstanding
C15_Witness ==
    /\ nextTimer = MaxCopies + 1
    /\ timers = {MaxCopies}

\* one append, on the log as it is: the updater of a queued text returns
\* its new entry followed by the log's entries, from the head, unchanged,
\* as many as fit
C16_EachAppend ==
    \A q \in 1..Len(updates), t \in ClockValues :
        LET entry == HistoryItem(createId(nextId), updates[q], t)
            new == prepend(history, entry)
        IN  /\ Len(new) = Min(1 + Len(history), MAX_HISTORY_ITEMS)
            /\ new[1] = entry
            /\ \A j \in 2..Len(new) : new[j] = history[j - 1]

\* a step that changes the log is the run of the k updaters the transcript
\* handler queued, each an append: the k entries they made are prepended,
\* the newest first, each with a fresh id and its queued text, and the
\* entries that follow are the old log's, from its head, unchanged
C16_IsAppend ==
    history' # history =>
        LET k == Len(updates)
        IN  /\ k >= 1
            /\ nextId' = nextId + k
            /\ Len(history') = Min(k + Len(history), MAX_HISTORY_ITEMS)
            /\ \A j \in 1..Len(history') :
                  IF j <= k
                  THEN /\ history'[j].id = createId(nextId + k - j)
                       /\ history'[j].text = updates[k - j + 1]
                       /\ \A i \in 1..Len(history) :
                             history[i].id # history'[j].id
                  ELSE history'[j] = history[j - k]

\* a step of a copy or of a timeout leaves the log as it was
C16_CopyKeepsLog ==
    (copies' # copies \/ copiedId' # copiedId \/ timers' # timers)
        => history' = history

\* C16: every change of the log is a transcript append, which prepends one
\* new entry and drops entries from the tail only (the render that commits
\* k queued appends commits all k); no entry that stays changes, and copies
\* and timeouts leave the log unchanged.
C16_LogChangesByAppend ==
    [][C16_EachAppend /\ C16_IsAppend /\ C16_CopyKeepsLog]_vars

\* a loaded log under an entry appended to it, a copy made and its
\* feedback expired
C16_Witness ==
    /\ numCreated >= 1
    /\ Len(history) >= 2
    /\ isCreated(history[1])
    /\ ~isCreated(history[Len(history)])
    /\ nCopies = 1
    /\ copies = {}
    /\ nextTimer = 2
    /\ timers = {}
    /\ copiedId = NullId

\* C17 as claimed: every entry of the log, loaded or appended, has a text
\* that is not empty and is its own trimmed form.
C17_TextsTrimmed ==
    phase = "mounted" =>
        \A i \in 1..Len(history) :
            /\ history[i].text # <<>>
            /\ trim(history[i].text) = history[i].text

\* the listen() calls whose handler the backend holds: an stt:transcript
\* event runs each of them
liveHandlers == {i \in 1..Len(subs) : subs[i].st \in {"registered", "resolved"}}

\* C18 as claimed: on the mounted component at most one transcript handler
\* is registered, so that an event with a text appends one entry.
C18_OneHandler ==
    phase = "mounted" => Cardinality(liveHandlers) <= 1

\* the playbacks started for the dictation-start event ev
dings(ev) == {call \in played : call.ev = ev}

\* C19: each stt:dictation-start event starts at most one ding playback,
\* and an event received with active set starts none and leaves no handler
\* awaiting sound_get_enabled.
C19_AtMostOneDing ==
    /\ \A ev \in 1..nStarts : Cardinality(dings(ev)) <= 1
    /\ \A ev \in whileActive :
          /\ dings(ev) = {}
          /\ \A call \in awaiting : call.ev # ev

\* two handlers were registered when an event arrived, which one of them
\* played, and a later event arrived with active set
C19_Witness ==
    /\ startCues = {1, 2}
    /\ inbox = <<>>
    /\ \E ev \in 1..nStarts : dings(ev) # {} /\ ev \notin whileActive
    /\ whileActive # {}

====
